---- MODULE Spec2Model ----
(***************************************************************************)
(* Model of the offer-letter service: the employee lookup, the process-    *)
(* wide cached vector index and its build against the remote index         *)
(* service, the RobustFallbackAgent with its model-backed chain and its    *)
(* template generator, and the HTTP endpoints' mapping of outcomes.        *)
(***************************************************************************)
EXTENDS Integers, Sequences, FiniteSets, TLC

VARIABLES
    storage,      \* Employee_List.csv as it is on disk now
    apiKey,       \* whether OPENROUTER_API_KEY is set in the environment
    remote,       \* the remote index service: the index named INDEX_NAME
    cache,        \* the lru_cache(maxsize=1) of cached_vectorstore
    pc,           \* per request thread: where its handler stands
    req,          \* per request thread: the name it was asked for
    emp,          \* per request thread: the employee row it read
    loc,          \* per request thread: locals of cached_vectorstore / get_vectorstore
    vs,           \* per request thread: the index handle it obtained
    last,         \* the latest HTTP response sent, with the name asked for and the probe's answer
    started,      \* number of requests accepted so far
    hist,         \* history: runs of the build body and create_index requests sent
    agent,        \* a RobustFallbackAgent instance (agent lifetime specification)
    aout          \* outcome of that instance's latest invoke, and the caller's dict after it

vars == <<storage, apiKey, remote, cache, pc, req, emp, loc, vs, last, started, hist, agent, aout>>


(***************************************************************************)
(* Bounds of the model.                                                    *)
(***************************************************************************)
MaxRequests == 2
MaxInvokes == 2

Threads == {"t1", "t2"}

(***************************************************************************)
(* Text: names are sequences of letters, so that str.lower() is computed.  *)
(***************************************************************************)
LowerChar(c) == IF c = "A" THEN "a" ELSE IF c = "B" THEN "b" ELSE c

UpperChar(c) == IF c = "a" THEN "A" ELSE IF c = "b" THEN "B" ELSE c

\* str.lower()
Lower(s) == [i \in 1..Len(s) |-> LowerChar(s[i])]

RequestNames == { <<"A", "b">>, <<"a", "b">>, <<"b", "a">> }

(***************************************************************************)
(* Salary values as pandas hands them over: a number or a literal text.    *)
(***************************************************************************)
Num(n) == [isnum |-> TRUE, n |-> n, s |-> ""]
Lit(s) == [isnum |-> FALSE, n |-> 0, s |-> s]

Row(name, band, dept, dateStr, base, bonus, retention, total) ==
    [ employee_name |-> name, band |-> band, department |-> dept,
      location |-> "Pune", joining_date |-> dateStr,
      base_salary |-> base, performance_bonus |-> bonus,
      retention_bonus |-> retention, total_ctc |-> total ]

RowAb == Row(<<"A", "b">>, "L1", "Eng", "2025-05-01",
             Num(100000), Num(20000), Num(5000), Num(125000))

RowaB == Row(<<"a", "B">>, "L2", "Ops", "2025-06-01",
             Num(1234567), Num(0), Lit("N/A"), Num(1234567))

RowB == Row(<<"B">>, "L3", "HR", "2025-07-01", Num(0), Num(0), Num(0), Num(0))

Rows == { RowAb, RowaB, RowB }

NoRow == Row(<<>>, "", "", "", Lit(""), Lit(""), Lit(""), Lit(""))

Table(rows) == [readable |-> TRUE, has_name_col |-> TRUE, rows |-> rows]

\* The CSV on disk: unreadable, lacking the name column, or a table of rows.
Tables ==
    { Table(<< RowAb, RowaB >>),
      Table(<< RowaB, RowB, RowAb >>),
      [readable |-> TRUE, has_name_col |-> FALSE, rows |-> << NoRow >>],
      [readable |-> FALSE, has_name_col |-> FALSE, rows |-> <<>>] }

\* a reader that keeps the table of its first read
read_csv_memoized(file) == Table(<< RowAb, RowaB >>)

\* pd.read_csv(path): the table that is in the file when the call is made
read_csv(file) == file

(***************************************************************************)
(* Outcomes of calls: a returned value or a raised exception.              *)
(***************************************************************************)
Return(v) == [kind |-> "return", value |-> v, exc |-> "", cause |-> "", quota |-> FALSE]
Raise(exc, cause, quota) == [kind |-> "raise", value |-> "", exc |-> exc, cause |-> cause, quota |-> quota]

Returned(o) == o.kind = "return"
Raised(o) == o.kind = "raise"

(***************************************************************************)
(* get_employee_record                                                     *)
(***************************************************************************)
NameMatches(rowName, name) == Lower(rowName) = Lower(name)

MatchingRows(table, name) ==
    SelectSeq(table.rows, LAMBDA r : NameMatches(r.employee_name, name))

PickLast(matches) == matches[Len(matches)]

PickRecord(matches) == matches[1]

get_employee_record(table, name) ==
    IF ~table.readable
    THEN Raise("RuntimeError", "csv_read", FALSE)
    ELSE IF ~table.has_name_col
    THEN Raise("RuntimeError", "missing_column", FALSE)
    ELSE IF MatchingRows(table, name) = <<>>
    THEN Raise("RuntimeError", "not_found", FALSE)
    ELSE Return(PickRecord(MatchingRows(table, name)))

(***************************************************************************)
(* Clock readings and the three strftime formats the code uses.            *)
(***************************************************************************)
Instants == { [day |-> 5, minute |-> 0], [day |-> 6, minute |-> 1] }

\* strftime("%B %d, %Y")
StrfLongDate(t) == [fmt |-> "%B %d, %Y", day |-> t.day, minute |-> -1]

\* strftime("%B %d, %Y at %I:%M %p")
StrfLongDateTime(t) == [fmt |-> "%B %d, %Y at %I:%M %p", day |-> t.day, minute |-> t.minute]

\* strftime("%Y-%m-%d")
StrfIsoDate(t) == [fmt |-> "%Y-%m-%d", day |-> t.day, minute |-> -1]

(***************************************************************************)
(* What the retriever answers: it raises, or returns documents in ranked   *)
(* order.  A document is its lines; a line is its words, the number of     *)
(* characters left after strip(), and an identity.                         *)
(***************************************************************************)
ContextChars == 500
ChainTopDocs == 3
ChainK == 5
TemplateK == 3
MinLineLen == 20
MaxSnippets == 8

Line(id, words, len) == [id |-> id, words |-> words, len |-> len]

DocA == [ id |-> "leave-policy", chars |-> 730,
          lines |-> << Line("a1", <<"Annual", "Leave", "is", "granted">>, 34),
                       Line("a2", <<"Page", "2">>, 6),
                       Line("a3", <<"BONUS">>, 5) >> ]

DocB == [ id |-> "travel-policy", chars |-> 120,
          lines |-> << Line("b1", <<"travel", "desk", "contact", "details">>, 40),
                       Line("b2", <<"medical", "insurance", "covers", "travel">>, 44) >> ]

DocLong == [ id |-> "offer-terms", chars |-> 900,
             lines |-> << Line("d1", <<"probation", "period", "of", "six", "months">>, 30),
                          Line("d2", <<"salary", "is", "paid", "monthly">>, 25),
                          Line("d3", <<"ctc", "is", "reviewed">>, 20),
                          Line("d4", <<"ctc", "is", "reviewed", "yearly">>, 21),
                          Line("d5", <<"registered", "office", "address">>, 40),
                          Line("d6", <<"travel", "allowance", "as", "per", "band">>, 33),
                          Line("d7", <<"Vacation", "days", "carry", "over">>, 28) >> ]

DocBlank == [ id |-> "blank", chars |-> 0, lines |-> << Line("c1", <<>>, 0) >> ]

Retrievals ==
    { [ok |-> FALSE, docs |-> <<>>],
      [ok |-> TRUE, docs |-> <<>>],
      [ok |-> TRUE, docs |-> << DocBlank >>],
      [ok |-> TRUE, docs |-> << DocA, DocB >>],
      [ok |-> TRUE, docs |-> << DocB, DocA, DocB, DocA >>],
      [ok |-> TRUE, docs |-> << DocLong, DocA, DocLong, DocB >>] }

Min(a, b) == IF a < b THEN a ELSE b

\* retriever.invoke(query) with search_kwargs {"k": k}
TopK(retr, k) == SubSeq(retr.docs, 1, Min(k, Len(retr.docs)))

DefaultSentence == "Standard company policies apply as per employee handbook."

(***************************************************************************)
(* get_agent.get_context: the context of the generation chain.             *)
(***************************************************************************)
get_context(hasStore, retr) ==
    IF ~hasStore \/ ~retr.ok
    THEN [default |-> TRUE, parts |-> <<>>]
    ELSE LET docs == TopK(retr, ChainK)
             top == SubSeq(docs, 1, Min(ChainTopDocs, Len(docs)))
             parts == [i \in 1..Len(top) |->
                          [doc |-> top[i].id, chars |-> Min(ContextChars, top[i].chars)]]
             blank == \A i \in 1..Len(parts) : parts[i].chars = 0
         IN IF blank THEN [default |-> TRUE, parts |-> <<>>]
                     ELSE [default |-> FALSE, parts |-> parts]

(***************************************************************************)
(* generate_offer_letter: the terms section of the template.               *)
(***************************************************************************)
Keywords ==
    { "leave", "vacation", "policy", "benefit", "salary", "working hours",
      "probation", "ctc", "compensation", "annual", "medical", "insurance",
      "bonus", "allowance" }

\* str.lower() on the words of the policy lines
LowerWord(w) ==
    CASE w = "Annual" -> "annual"
      [] w = "Leave" -> "leave"
      [] w = "BONUS" -> "bonus"
      [] w = "Page" -> "page"
      [] w = "Vacation" -> "vacation"
      [] OTHER -> w

HasKeyword(line) == \E i \in 1..Len(line.words) : LowerWord(line.words[i]) \in Keywords

Bullet(text) == [bullet |-> TRUE, line |-> text]

DefaultBullets == << Bullet(DefaultSentence) >>

RECURSIVE Flatten(_)
Flatten(ss) == IF ss = <<>> THEN <<>> ELSE Head(ss) \o Flatten(Tail(ss))

AllLines(docs) == Flatten([i \in 1..Len(docs) |-> docs[i].lines])

\* the snippets when the length of a line is not looked at
policy_snippets_any_length(docs) ==
    LET kept == SelectSeq(AllLines(docs), LAMBDA l : HasKeyword(l))
    IN [i \in 1..Len(kept) |-> Bullet(kept[i].id)]

policy_snippets(docs) ==
    LET kept == SelectSeq(AllLines(docs), LAMBDA l : HasKeyword(l) /\ l.len > MinLineLen)
    IN [i \in 1..Len(kept) |-> Bullet(kept[i].id)]

\* the terms section without the handler around the retrieval
relevant_policies_unguarded(hasStore, retr) ==
    LET snippets == policy_snippets(TopK(retr, TemplateK))
    IN SubSeq(snippets, 1, Min(MaxSnippets, Len(snippets)))

relevant_policies(hasStore, retr) ==
    IF ~hasStore \/ ~retr.ok
    THEN DefaultBullets
    ELSE LET snippets == policy_snippets(TopK(retr, TemplateK))
         IN IF snippets = <<>> THEN DefaultBullets
            ELSE SubSeq(snippets, 1, Min(MaxSnippets, Len(snippets)))

(***************************************************************************)
(* generate_offer_letter: the compensation section of the template.        *)
(***************************************************************************)
GroupSize == 1000

\* format(v, ",.2f") of a whole number: its groups of three digits, then ".00"
RECURSIVE Groups(_)
Groups(n) == IF n < GroupSize THEN << n >> ELSE Append(Groups(n \div GroupSize), n % GroupSize)

RECURSIVE GroupsValue(_)
GroupsValue(g) ==
    IF g = <<>> THEN 0
    ELSE GroupsValue(SubSeq(g, 1, Len(g) - 1)) * GroupSize + g[Len(g)]

\* k.replace('_', ' ').title()
TitleKey(k) ==
    CASE k = "base" -> "Base"
      [] k = "bonus" -> "Bonus"
      [] k = "retention" -> "Retention"
      [] k = "total" -> "Total"
      [] OTHER -> k

CurrencyLine(label, n) == [label |-> label, currency |-> TRUE, groups |-> Groups(n), cents |-> 0, text |-> ""]
LiteralLine(label, s) == [label |-> label, currency |-> FALSE, groups |-> <<>>, cents |-> 0, text |-> s]

SalaryItemLine(item) ==
    IF item.v.isnum THEN CurrencyLine(TitleKey(item.key), item.v.n)
    ELSE LiteralLine(TitleKey(item.key), item.v.s)

RECURSIVE SumNumeric(_)
SumNumeric(items) ==
    IF items = <<>> THEN 0
    ELSE (IF Head(items).v.isnum THEN Head(items).v.n ELSE 0) + SumNumeric(Tail(items))

ComponentsOnly(items) == SelectSeq(items, LAMBDA it : it.key # "total")

\* total_ctc as the loop over salary_breakup.items() accumulates it
total_ctc_of(items) == SumNumeric(items)

TotalLabel == "Total Annual CTC"

salary_breakup_str(items) ==
    LET lines == [i \in 1..Len(items) |-> SalaryItemLine(items[i])]
        total == total_ctc_of(items)
    IN IF total > 0 THEN Append(lines, CurrencyLine(TotalLabel, total)) ELSE lines

(***************************************************************************)
(* generate_offer_letter: the template letter.                             *)
(***************************************************************************)
TemplateTeamFromBand(inputs) == inputs.band

TemplateTeam(inputs) == inputs.team

generate_offer_letter(hasStore, inputs, retr, now) ==
    [ form |-> "template",
      date |-> StrfIsoDate(now),
      dear |-> inputs.name,
      band |-> inputs.band,
      team |-> TemplateTeam(inputs),
      location |-> inputs.location,
      joining_date |-> inputs.joining_date,
      salary |-> salary_breakup_str(inputs.salary_breakup),
      policies |-> relevant_policies(hasStore, retr),
      context |-> [default |-> FALSE, parts |-> <<>>] ]

\* The chain's prompt, and the text the generation backend returned for it.
Prompt(inputs, context) ==
    [ context |-> context, name |-> inputs.name, band |-> inputs.band,
      team |-> inputs.team, location |-> inputs.location,
      joining_date |-> inputs.joining_date,
      salary_breakup_str |-> inputs.salary_breakup ]

LlmLetter(inputs, context) == [ form |-> "llm", prompt |-> Prompt(inputs, context) ]

(***************************************************************************)
(* generate_offer_for: the dict handed to the agent.                       *)
(***************************************************************************)
InputData(employee, now) ==
    [ name |-> employee.employee_name,
      band |-> employee.band,
      team |-> employee.department,
      location |-> employee.location,
      joining_date |-> employee.joining_date,
      salary_breakup |-> << [key |-> "base", v |-> employee.base_salary],
                            [key |-> "bonus", v |-> employee.performance_bonus],
                            [key |-> "retention", v |-> employee.retention_bonus],
                            [key |-> "total", v |-> employee.total_ctc] >>,
      query |-> [ name |-> employee.employee_name, department |-> employee.department,
                  location |-> employee.location, joining_date |-> employee.joining_date ],
      generated_date |-> StrfLongDate(now) ]

(***************************************************************************)
(* get_working_llm, get_agent and RobustFallbackAgent.                     *)
(*   key: OPENROUTER_API_KEY is set; up: the backend answers the probe.    *)
(***************************************************************************)
\* get_working_llm / get_openrouter_llm: TRUE for an llm, FALSE for None
get_working_llm(key, up) == key /\ up

\* the answers of the backend to a connectivity probe; without a key it is not asked
ProbeAnswers(key) == IF key THEN BOOLEAN ELSE {FALSE}

\* what the call adds to the record of connectivity probes
Probed(key, up, at) == IF key THEN << [at |-> at, ok |-> up] >> ELSE <<>>

\* get_agent: the chain when an llm is at hand, otherwise the template agent
get_agent(key, up) == IF get_working_llm(key, up) THEN "chain" ELSE "template"

NoAgent ==
    [ built |-> FALSE, vectorstore |-> FALSE, agent |-> "template", llm_agent |-> FALSE,
      initialization_attempted |-> FALSE, probes |-> <<>>, invokes |-> 0 ]

\* RobustFallbackAgent.__init__
RobustFallbackAgent(hasStore, key, up1, up2) ==
    [ built |-> TRUE,
      vectorstore |-> hasStore,
      agent |-> get_agent(key, up1),
      llm_agent |-> get_working_llm(key, up2),
      initialization_attempted |-> FALSE,
      probes |-> Probed(key, up1, "init") \o Probed(key, up2, "init"),
      invokes |-> 0 ]

\* RobustFallbackAgent._initialize_llm
initialize_llm(a, key, up) ==
    IF ~a.initialization_attempted
    THEN [a EXCEPT !.llm_agent = get_working_llm(key, up),
                   !.initialization_attempted = TRUE,
                   !.probes = @ \o Probed(key, up, "invoke")]
    ELSE a

\* the chain RunnableMap | prompt | llm | StrOutputParser, invoked
ChainInvoke(hasStore, inputs, gen, retr) ==
    IF gen = "raise" THEN Raise("Exception", "llm_call", FALSE)
    ELSE Return(LlmLetter(inputs, get_context(hasStore, retr)))

\* self.agent.invoke(inputs), for whichever object get_agent returned
AgentInvoke(a, inputs, gen, retr, now) ==
    IF a.agent = "chain" THEN ChainInvoke(a.vectorstore, inputs, gen, retr)
    ELSE Return(generate_offer_letter(a.vectorstore, inputs, retr, now))

\* the last statement of invoke: only a RunnableLambda has invoke used; any
\* other object is called, and a RunnableSequence is not callable
Fallback(a, inputs, retr, now) ==
    IF a.agent = "template"
    THEN Return(generate_offer_letter(a.vectorstore, inputs, retr, now))
    ELSE Raise("TypeError", "not_callable", FALSE)

\* RobustFallbackAgent.invoke, on the agent after _initialize_llm and the
\* caller's dict after the timestamp was written into it
InvokeResult(a, inputs, gen, retr, now) ==
    IF a.llm_agent /\ Returned(AgentInvoke(a, inputs, gen, retr, now))
    THEN AgentInvoke(a, inputs, gen, retr, now)
    ELSE Fallback(a, inputs, retr, now)

Stamped(inputs, now) == [inputs EXCEPT !.generated_date = StrfLongDateTime(now)]

AfterInvoke(a, key, up) ==
    [initialize_llm(a, key, up) EXCEPT !.invokes = @ + 1]

NoOutcome == [kind |-> "none", value |-> "", exc |-> "", cause |-> "", quota |-> FALSE]

NoCall == [ result |-> NoOutcome, given |-> InputData(NoRow, [day |-> 0, minute |-> 0]),
            inputs |-> InputData(NoRow, [day |-> 0, minute |-> 0]),
            gen |-> "ok", retr |-> [ok |-> FALSE, docs |-> <<>>] ]

GenOutcomes == {"ok", "raise"}

(***************************************************************************)
(* The remote index service and the build of the vector store.             *)
(***************************************************************************)
INDEX_NAME == "offer-letter-index"

PDF_FILES == << "HR Leave Policy.pdf", "HR Travel Policy.pdf", "HR Offer Letter.pdf" >>

\* chunk_text(load_pdf(path)): the chunks of one policy file, in order
ChunksOf(file) == << [file |-> file, chunk |-> 1], [file |-> file, chunk |-> 2] >>

\* docs as the loop over PDF_FILES extends it
Docs == Flatten([i \in 1..Len(PDF_FILES) |-> ChunksOf(PDF_FILES[i])])

\* len(embed.embed_query("sample text")) for the embedding model all-MiniLM-L6-v2
EmbedDim == 384

NoIndex == [exists |-> FALSE, dimension |-> 0, metric |-> "", texts |-> <<>>]

OldIndex == [exists |-> TRUE, dimension |-> 384, metric |-> "cosine",
             texts |-> << [file |-> "old.pdf", chunk |-> 1] >>]

\* pc.create_index(name, dimension, metric="cosine", spec)
NewIndex(dimension) ==
    [exists |-> TRUE, dimension |-> dimension, metric |-> "cosine", texts |-> <<>>]

\* LangchainPinecone.from_texts(docs, embed, index_name): upserts the texts
from_texts(index, docs) == [index EXCEPT !.texts = @ \o docs]

\* LangchainPinecone.from_existing_index(INDEX_NAME, embed): writes nothing
from_existing_index_upserting(index, docs) == [index EXCEPT !.texts = @ \o docs]

from_existing_index(index, docs) == index

NoHandle == [index |-> "", obj |-> 0]
Handle(n) == [index |-> INDEX_NAME, obj |-> n]

EmptyCache == [filled |-> FALSE, handle |-> NoHandle]

\* lru_cache: a call is answered from the cache once a result is stored
CacheHitNever(c) == FALSE

CacheHit(c) == c.filled

\* lru_cache: the result is stored unless the key was added meanwhile
CacheStore(c, h) == IF c.filled THEN c ELSE [filled |-> TRUE, handle |-> h]

\* a cache that keeps the failure of the wrapped call as its entry
CacheOnRaiseMemoized(c) == IF c.filled THEN c ELSE [filled |-> TRUE, handle |-> NoHandle]

\* lru_cache: an exception of the wrapped call passes through, nothing is stored
CacheOnRaise(c) == c

NoLoc == [op |-> "", obj |-> 0, docs |-> <<>>, dimension |-> 0, existing |-> FALSE]

(***************************************************************************)
(* The HTTP endpoints' mapping of outcomes to responses (main.py).         *)
(***************************************************************************)
NoResp == [code |-> 0, endpoint |-> "", body |-> [kind |-> "none"]]

NoLast == [resp |-> NoResp, req |-> <<>>, llm_up |-> FALSE]

\* generate_offer_for's own handler: every exception becomes a RuntimeError
\* whose message holds the text of the original
OfferFailed(o) == Raise("RuntimeError", o.cause, o.quota)

\* /api/generate-offer/
generate_offer(o) ==
    IF Returned(o)
    THEN IF o.value.kind = "error"
         THEN [code |-> 404, endpoint |-> "generate-offer", body |-> o.value]
         ELSE [code |-> 200, endpoint |-> "generate-offer", body |-> o.value]
    ELSE IF o.quota
    THEN [code |-> 503, endpoint |-> "generate-offer",
          body |-> [kind |-> "unavailable", cause |-> o.cause]]
    ELSE [code |-> 500, endpoint |-> "generate-offer",
          body |-> [kind |-> "internal", cause |-> o.cause]]

\* /api/check-system-status/
check_system_status_endpoint(o) ==
    [code |-> 200, endpoint |-> "check-system-status", body |-> o.value]

\* /api/list-employees/
get_employees(o) ==
    IF Returned(o)
    THEN [code |-> 200, endpoint |-> "list-employees", body |-> o.value]
    ELSE [code |-> 500, endpoint |-> "list-employees",
          body |-> [kind |-> "internal", cause |-> o.cause]]

\* check_system_status: the dict returned when nothing raised
LlmAvailableMessage == "System is working properly. OpenRouter.ai LLM available"
LlmUnavailableMessage ==
    "System is working properly. OpenRouter.ai LLM unavailable, using template fallback"

test_llm_always(key, up) == TRUE

test_llm(key, up) == get_working_llm(key, up)

StatusHealthy(table, key, up) ==
    [ kind |-> "status", status |-> "healthy",
      message |-> IF test_llm(key, up) THEN LlmAvailableMessage ELSE LlmUnavailableMessage,
      vectorstore |-> "initialized",
      employee_records |-> Len(table.rows),
      generation_method |-> "llm_or_template_fallback" ]

StatusError(cause) ==
    [ kind |-> "status", status |-> "error", message |-> cause,
      vectorstore |-> "", employee_records |-> -1, generation_method |-> "" ]

\* list_employees
list_employees(table) ==
    IF ~table.readable THEN Raise("RuntimeError", "csv_read", FALSE)
    ELSE Return([ kind |-> "employees",
                  employees |-> [i \in 1..Len(table.rows) |->
                      [ name |-> IF table.has_name_col THEN table.rows[i].employee_name ELSE <<>>,
                        band |-> table.rows[i].band,
                        department |-> table.rows[i].department,
                        location |-> table.rows[i].location,
                        joining_date |-> table.rows[i].joining_date,
                        salary |-> table.rows[i].total_ctc ]],
                  count |-> Len(table.rows) ])

\* generate_offer_for: the dict returned after the agent answered
OfferResult(employee, letter, inputs) ==
    [ kind |-> "offer",
      offer_letter |-> letter,
      method |-> "llm_or_template_fallback",
      employee_details |-> [ name |-> employee.employee_name, band |-> employee.band,
                             department |-> employee.department,
                             location |-> employee.location,
                             joining_date |-> employee.joining_date,
                             salary |-> employee.total_ctc ],
      generated_on |-> inputs.generated_date ]

(***************************************************************************)
(* State machine of the service: request threads run the handlers; the     *)
(* steps of a handler are cut where it calls the remote index service.     *)
(***************************************************************************)
None == [none |-> TRUE]

\* what the retriever answers, and what the clock shows, in the service runs
ServiceRetrievals == { r \in Retrievals : Len(r.docs) = 2 }

ServiceInstants == { t \in Instants : t.minute = 1 }

Init ==
    /\ storage \in Tables
    /\ apiKey \in BOOLEAN
    /\ remote \in {NoIndex, OldIndex}
    /\ cache = EmptyCache
    /\ pc = [t \in Threads |-> "idle"]
    /\ req = [t \in Threads |-> <<>>]
    /\ emp = [t \in Threads |-> NoRow]
    /\ loc = [t \in Threads |-> NoLoc]
    /\ vs = [t \in Threads |-> NoHandle]
    /\ last = NoLast
    /\ started = 0
    /\ hist = [builds |-> 0, creates |-> 0]
    /\ agent = NoAgent
    /\ aout = NoCall

\* the response of thread t leaves and the thread is free again
Respond(t, r, name, up) ==
    /\ last' = [resp |-> r, req |-> name, llm_up |-> up]
    /\ pc' = [pc EXCEPT ![t] = "idle"]
    /\ req' = [req EXCEPT ![t] = <<>>]
    /\ emp' = [emp EXCEPT ![t] = NoRow]
    /\ loc' = [loc EXCEPT ![t] = NoLoc]
    /\ vs' = [vs EXCEPT ![t] = NoHandle]

\* An exception leaves the handler of thread t: generate_offer_for re-raises
\* it as a RuntimeError, check_system_status turns it into an error status.
Failed(t, o) ==
    Respond(t, IF loc[t].op = "generate" THEN generate_offer(OfferFailed(o))
               ELSE check_system_status_endpoint(Return(StatusError(o.cause))),
            <<>>, FALSE)

\* An exception leaves cached_vectorstore on thread t
BuildFailed(t, o) ==
    /\ Failed(t, o)
    /\ cache' = CacheOnRaise(cache)

\* generate_offer_for, up to the call of cached_vectorstore
StartGenerate(t) ==
    /\ pc[t] = "idle"
    /\ started < MaxRequests
    /\ started' = started + 1
    /\ \E name \in RequestNames :
         LET r == get_employee_record(read_csv(storage), name)
         IN IF Raised(r)
            THEN /\ last' = [resp |-> generate_offer(OfferFailed(r)), req |-> name, llm_up |-> FALSE]
                 /\ UNCHANGED <<pc, req, emp, loc>>
            ELSE IF r.value = None
            THEN /\ last' = [resp |-> generate_offer(Return([kind |-> "error", name |-> name])),
                             req |-> name, llm_up |-> FALSE]
                 /\ UNCHANGED <<pc, req, emp, loc>>
            ELSE /\ req' = [req EXCEPT ![t] = name]
                 /\ emp' = [emp EXCEPT ![t] = r.value]
                 /\ loc' = [loc EXCEPT ![t] = [NoLoc EXCEPT !.op = "generate"]]
                 /\ pc' = [pc EXCEPT ![t] = "vs"]
                 /\ last' = last
    /\ UNCHANGED <<storage, apiKey, remote, cache, vs, hist, agent, aout>>

\* check_system_status, up to the call of cached_vectorstore
StartStatus(t) ==
    /\ pc[t] = "idle"
    /\ started < MaxRequests
    /\ started' = started + 1
    /\ pc' = [pc EXCEPT ![t] = "vs"]
    /\ loc' = [loc EXCEPT ![t] = [NoLoc EXCEPT !.op = "status"]]
    /\ UNCHANGED <<storage, apiKey, remote, cache, req, emp, vs, last, hist, agent, aout>>

\* list_employees and its endpoint
ListEmployees(t) ==
    /\ pc[t] = "idle"
    /\ started < MaxRequests
    /\ started' = started + 1
    /\ last' = [resp |-> get_employees(list_employees(read_csv(storage))), req |-> <<>>, llm_up |-> FALSE]
    /\ UNCHANGED <<storage, apiKey, remote, cache, pc, req, emp, loc, vs, hist, agent, aout>>

\* cached_vectorstore: the cache is consulted; on a miss the body starts and
\* extracts and chunks the policy files
VsLookup(t) ==
    /\ pc[t] = "vs"
    /\ IF CacheHit(cache)
       THEN /\ vs' = [vs EXCEPT ![t] = cache.handle]
            /\ pc' = [pc EXCEPT ![t] = "have"]
            /\ UNCHANGED <<req, emp, loc, last, hist, cache>>
       ELSE /\ hist' = [hist EXCEPT !.builds = @ + 1]
            /\ \E filesOk \in BOOLEAN :
                 IF filesOk
                 THEN /\ loc' = [loc EXCEPT ![t].obj = hist.builds + 1, ![t].docs = Docs]
                      /\ pc' = [pc EXCEPT ![t] = "list"]
                      /\ UNCHANGED <<req, emp, vs, last, cache>>
                 ELSE BuildFailed(t, Raise("RuntimeError", "missing_file", FALSE))
    /\ UNCHANGED <<storage, apiKey, remote, started, agent, aout>>

ListOutcomes == {"ok", "no_credential", "unreachable", "quota"}

\* get_vectorstore: the embedding probe, the credential, pc.list_indexes()
VsList(t) ==
    /\ pc[t] = "list"
    /\ \E outcome \in ListOutcomes :
         IF outcome = "ok"
         THEN /\ loc' = [loc EXCEPT ![t].dimension = EmbedDim, ![t].existing = remote.exists]
              /\ pc' = [pc EXCEPT ![t] = IF remote.exists THEN "attach" ELSE "create"]
              /\ UNCHANGED <<req, emp, vs, last, cache>>
         ELSE BuildFailed(t, Raise("RuntimeError", outcome, outcome = "quota"))
    /\ UNCHANGED <<storage, apiKey, remote, started, hist, agent, aout>>

\* get_vectorstore: pc.create_index(...); the service refuses a name in use
\* (hist.creates counts the requests that reach the service)
VsCreate(t) ==
    /\ pc[t] = "create"
    /\ IF remote.exists
       THEN /\ hist' = [hist EXCEPT !.creates = @ + 1]
            /\ BuildFailed(t, Raise("RuntimeError", "already_exists", FALSE))
            /\ remote' = remote
       ELSE \E ok \in BOOLEAN :
              IF ok
              THEN /\ hist' = [hist EXCEPT !.creates = @ + 1]
                   /\ remote' = NewIndex(loc[t].dimension)
                   /\ pc' = [pc EXCEPT ![t] = "populate"]
                   /\ UNCHANGED <<req, emp, loc, vs, last, cache>>
              ELSE /\ BuildFailed(t, Raise("RuntimeError", "unreachable", FALSE))
                   /\ UNCHANGED <<remote, hist>>
    /\ UNCHANGED <<storage, apiKey, started, agent, aout>>

\* get_vectorstore: LangchainPinecone.from_texts(docs, ...), then the return
\* through cached_vectorstore, whose cache keeps the handle
VsPopulate(t) ==
    /\ pc[t] = "populate"
    /\ \E ok \in BOOLEAN :
         IF ok
         THEN /\ remote' = from_texts(remote, loc[t].docs)
              /\ vs' = [vs EXCEPT ![t] = Handle(loc[t].obj)]
              /\ cache' = CacheStore(cache, Handle(loc[t].obj))
              /\ pc' = [pc EXCEPT ![t] = "have"]
              /\ UNCHANGED <<req, emp, loc, last>>
         ELSE /\ BuildFailed(t, Raise("RuntimeError", "unreachable", FALSE))
              /\ remote' = remote
    /\ UNCHANGED <<storage, apiKey, started, hist, agent, aout>>

\* get_vectorstore: LangchainPinecone.from_existing_index(...), then the
\* return through cached_vectorstore
VsAttach(t) ==
    /\ pc[t] = "attach"
    /\ \E ok \in BOOLEAN :
         IF ok
         THEN /\ remote' = from_existing_index(remote, loc[t].docs)
              /\ vs' = [vs EXCEPT ![t] = Handle(loc[t].obj)]
              /\ cache' = CacheStore(cache, Handle(loc[t].obj))
              /\ pc' = [pc EXCEPT ![t] = "have"]
              /\ UNCHANGED <<req, emp, loc, last>>
         ELSE /\ BuildFailed(t, Raise("RuntimeError", "unreachable", FALSE))
              /\ remote' = remote
    /\ UNCHANGED <<storage, apiKey, started, hist, agent, aout>>

\* generate_offer_for after the index handle: the dict, a new
\* RobustFallbackAgent, its invoke, the result; then the endpoint's mapping
Generate(t) ==
    /\ pc[t] = "have"
    /\ loc[t].op = "generate"
    /\ \E up1 \in ProbeAnswers(apiKey), up2 \in ProbeAnswers(apiKey), up3 \in ProbeAnswers(apiKey),
          gen \in GenOutcomes, retr \in ServiceRetrievals, now \in ServiceInstants :
         LET given == InputData(emp[t], now)
             made == RobustFallbackAgent(TRUE, apiKey, up1, up2)
             inputs == Stamped(given, now)
             r == InvokeResult(AfterInvoke(made, apiKey, up3), inputs, gen, retr, now)
         IN Respond(t, IF Raised(r) THEN generate_offer(OfferFailed(r))
                       ELSE generate_offer(Return(OfferResult(emp[t], r.value, inputs))),
                    req[t], FALSE)
    /\ UNCHANGED <<storage, apiKey, remote, cache, started, hist, agent, aout>>

\* check_system_status after the index handle: the row count, test_llm
StatusFinish(t) ==
    /\ pc[t] = "have"
    /\ loc[t].op = "status"
    /\ IF ~read_csv(storage).readable
       THEN Failed(t, Raise("Exception", "csv_read", FALSE))
       ELSE \E up \in ProbeAnswers(apiKey) :
              Respond(t, check_system_status_endpoint(
                             Return(StatusHealthy(read_csv(storage), apiKey, up))), <<>>, up)
    /\ UNCHANGED <<storage, apiKey, remote, cache, started, hist, agent, aout>>

\* somebody edits Employee_List.csv
EditStorage ==
    /\ \E table \in Tables \ {storage} : storage' = table
    /\ UNCHANGED <<apiKey, remote, cache, pc, req, emp, loc, vs, last, started, hist, agent, aout>>

Next ==
    \/ \E t \in Threads : StartGenerate(t)
    \/ \E t \in Threads : StartStatus(t)
    \/ \E t \in Threads : ListEmployees(t)
    \/ \E t \in Threads : VsLookup(t)
    \/ \E t \in Threads : VsList(t)
    \/ \E t \in Threads : VsCreate(t)
    \/ \E t \in Threads : VsPopulate(t)
    \/ \E t \in Threads : VsAttach(t)
    \/ \E t \in Threads : Generate(t)
    \/ \E t \in Threads : StatusFinish(t)
    \/ EditStorage

Spec == Init /\ [][Next]_vars

(***************************************************************************)
(* The lifetime of one RobustFallbackAgent: its construction, then invoke  *)
(* on well-formed requests, the backend answering each probe and each      *)
(* generation call as it pleases.                                          *)
(***************************************************************************)
InitAgent ==
    /\ Init
    /\ storage = Table(<< RowAb, RowaB >>)
    /\ remote = OldIndex

\* agent = RobustFallbackAgent(vectorstore)
AgentNew ==
    /\ ~agent.built
    /\ \E hasStore \in BOOLEAN, up1 \in ProbeAnswers(apiKey), up2 \in ProbeAnswers(apiKey) :
         agent' = RobustFallbackAgent(hasStore, apiKey, up1, up2)
    /\ aout' = NoCall
    /\ UNCHANGED <<storage, apiKey, remote, cache, pc, req, emp, loc, vs, last, started, hist>>

\* agent.invoke(inputs) on the dict generate_offer_for builds for an employee
AgentCall ==
    /\ agent.built
    /\ agent.invokes < MaxInvokes
    /\ \E row \in Rows, now \in Instants, up \in ProbeAnswers(apiKey),
          gen \in GenOutcomes, retr \in Retrievals :
         LET given == InputData(row, now)
             inputs == Stamped(given, now)
             after == AfterInvoke(agent, apiKey, up)
         IN /\ agent' = after
            /\ aout' = [ result |-> InvokeResult(after, inputs, gen, retr, now),
                         given |-> given, inputs |-> inputs,
                         gen |-> gen, retr |-> retr ]
    /\ UNCHANGED <<storage, apiKey, remote, cache, pc, req, emp, loc, vs, last, started, hist>>

NextAgent == AgentNew \/ AgentCall

SpecAgent == InitAgent /\ [][NextAgent]_vars

(***************************************************************************)
(* Claims about RobustFallbackAgent and the template (SpecAgent).          *)
(***************************************************************************)
Invoked == aout.result.kind # "none"

TemplateLetter(o) == Returned(o) /\ o.value.form = "template"

\* C1: invoke on a well-formed request returns letter text and never raises,
\* whatever the backend answered at each probe and at the generation call;
\* when the chain was built at construction and its invocation raises, or a
\* later probe reports the backend unavailable, the template's result is
\* returned.
C1_InvokeNeverRaises ==
    Invoked =>
        /\ Returned(aout.result)
        /\ (agent.agent = "chain" /\ (aout.gen = "raise" \/ ~agent.llm_agent))
              => TemplateLetter(aout.result)

\* C6: when the backend is unavailable for the whole life of the agent (no
\* credential, or every connectivity probe failed), invoke returns the
\* template letter, which holds the employee's name and department.
C6_UnavailableBackendGivesTemplate ==
    (Invoked /\ \A i \in 1..Len(agent.probes) : ~agent.probes[i].ok) =>
        /\ TemplateLetter(aout.result)
        /\ aout.result.value.dear = aout.given.name
        /\ aout.result.value.team = aout.given.team
        /\ aout.given.name # <<>>
        /\ aout.given.team # ""

C6_Witness ==
    /\ Invoked
    /\ apiKey
    /\ Len(agent.probes) > 0
    /\ \A i \in 1..Len(agent.probes) : ~agent.probes[i].ok
    /\ TemplateLetter(aout.result)
    /\ aout.result.value.team = "Eng"

\* C7: over the lifetime of one agent the backend is probed at most once and
\* lazily: no probe happens before the first invoke, and no later probe
\* re-evaluates the outcome of that one.
C7_SingleLazyProbe ==
    /\ Len(agent.probes) <= 1
    /\ \A i \in 1..Len(agent.probes) : agent.probes[i].at = "invoke"

AllNumeric(items) == \A i \in 1..Len(items) : items[i].v.isnum

\* C8: for a salary breakdown whose four values are all numeric the template
\* renders one currency line per value and a total line whose amount is the
\* sum of the components base, bonus and retention (125000 for 100000,
\* 20000, 5000 and total 125000).
C8_TotalLineIsSumOfComponents ==
    (TemplateLetter(aout.result) /\ AllNumeric(aout.given.salary_breakup)) =>
        LET items == aout.given.salary_breakup
            lines == aout.result.value.salary
        IN /\ Len(lines) = Len(items) + 1
           /\ \A i \in 1..Len(items) :
                 lines[i].currency /\ GroupsValue(lines[i].groups) = items[i].v.n
           /\ lines[Len(lines)].label = TotalLabel
           /\ GroupsValue(lines[Len(lines)].groups) = SumNumeric(ComponentsOnly(items))

(***************************************************************************)
(* Claims about the service (Spec).                                        *)
(***************************************************************************)
\* two names that differ at most in the case of their letters
SameLetters(n1, n2) ==
    /\ Len(n1) = Len(n2)
    /\ \A i \in 1..Len(n1) : UpperChar(n1[i]) = UpperChar(n2[i])

NoRowNamed(table, name) ==
    \A i \in 1..Len(table.rows) : ~SameLetters(table.rows[i].employee_name, name)

\* the step in which generate_offer_for ends at the employee lookup
LookupFailedStep ==
    /\ started' = started + 1
    /\ pc' = pc
    /\ last'.resp.endpoint = "generate-offer"

\* C2: for a name that matches no employee row generate_offer_for returns a
\* not-found outcome, which the endpoint maps to 404, and does not raise
\* (a raised failure is what the endpoint maps to 500 or 503).
C2_UnknownNameIsNotFound ==
    [][ (LookupFailedStep /\ storage.readable /\ storage.has_name_col
            /\ NoRowNamed(storage, last'.req))
          => (last'.resp.code = 404 /\ last'.resp.body.kind = "error") ]_vars

\* C3: once cached_vectorstore has stored a built index, no later call
\* runs the build again and every later call receives the stored handle.
C3_NoRebuildOnceCached ==
    [][ cache.filled =>
          /\ cache' = cache
          /\ hist'.builds = hist.builds
          /\ \A t \in Threads :
                (pc[t] = "vs" /\ pc'[t] # "vs")
                   => (pc'[t] = "have" /\ vs'[t] = cache.handle /\ loc'[t].obj = 0) ]_vars

C3_Witness ==
    /\ cache.filled
    /\ hist.builds = 1
    /\ \E t \in Threads : pc[t] = "have" /\ loc[t].obj = 0 /\ vs[t] = cache.handle

\* C4: when several requests make the first access to cached_vectorstore
\* concurrently and the index does not exist yet, the build is serialized,
\* so the remote service is never asked twice to create the index.
C4_CreateRequestedAtMostOnce == hist.creates <= 1

\* C5: get_vectorstore writes to the remote index only when no index of the
\* configured name exists: it then creates it with the probed dimension and
\* the cosine metric and stores docs in it; an index that exists is attached
\* to and its stored contents stay as they are.
C5_WritesOnlyWhenIndexMissing ==
    [][ /\ \A t \in Threads :
            /\ (pc[t] = "attach" /\ pc'[t] # "attach")
                  => (loc[t].existing /\ remote' = remote)
            /\ (pc[t] = "create" /\ pc'[t] = "populate")
                  => /\ ~loc[t].existing
                     /\ ~remote.exists
                     /\ remote' = [exists |-> TRUE, dimension |-> loc[t].dimension,
                                   metric |-> "cosine", texts |-> <<>>]
                     /\ loc[t].dimension = EmbedDim
            /\ (pc[t] = "populate" /\ pc'[t] = "have")
                  => remote' = [remote EXCEPT !.texts = loc[t].docs]
        /\ remote' # remote
              => \E t \in Threads : pc[t] \in {"create", "populate"} /\ pc'[t] # pc[t]
        /\ (remote.exists /\ remote.texts # <<>>) => remote' = remote ]_vars

C5_Witness ==
    /\ remote = OldIndex
    /\ \E t \in Threads : pc[t] = "have" /\ loc[t].existing /\ loc[t].docs = Docs

\* C9: with the index at hand and the employee source readable,
\* check_system_status answers "healthy", counts the rows of the employee
\* source, and says the generation backend is available exactly when the
\* probe succeeded; an unreachable backend leaves the status "healthy".
C9_StatusHealthyWithCountAndFlag ==
    [][ \A t \in Threads :
          (pc[t] = "have" /\ loc[t].op = "status" /\ pc'[t] = "idle" /\ storage.readable)
             => /\ last'.resp.code = 200
                /\ last'.resp.body.status = "healthy"
                /\ last'.resp.body.employee_records = Len(storage.rows)
                /\ last'.resp.body.message \in {LlmAvailableMessage, LlmUnavailableMessage}
                /\ (last'.resp.body.message = LlmAvailableMessage)
                      <=> (apiKey /\ last'.llm_up) ]_vars

C9_Witness ==
    /\ apiKey
    /\ last.resp.endpoint = "check-system-status"
    /\ last.resp.body.status = "healthy"
    /\ last.resp.body.message = LlmUnavailableMessage
    /\ last.resp.body.employee_records = 3

\* C10: get_employee_record matches the name case-insensitively: names that
\* differ only in letter case give the same record, and of several matching
\* rows the first in storage order is returned.
C10_CaseInsensitiveFirstMatch ==
    [][ /\ \A t \in Threads :
            (pc[t] = "idle" /\ pc'[t] = "vs" /\ loc'[t].op = "generate")
               => /\ \E i \in 1..Len(storage.rows) :
                        /\ emp'[t] = storage.rows[i]
                        /\ SameLetters(storage.rows[i].employee_name, req'[t])
                        /\ \A j \in 1..(i - 1) :
                              ~SameLetters(storage.rows[j].employee_name, req'[t])
                  /\ \A n \in RequestNames :
                        SameLetters(n, req'[t])
                           => get_employee_record(storage, n) = Return(emp'[t])
        /\ (LookupFailedStep /\ storage.readable /\ storage.has_name_col)
               => NoRowNamed(storage, last'.req) ]_vars

C10_Witness ==
    /\ storage = Table(<< RowaB, RowB, RowAb >>)
    /\ \E t \in Threads :
          /\ pc[t] = "vs"
          /\ req[t] = <<"a", "b">>
          /\ emp[t] = RowaB

\* the step in which list_employees and its endpoint answer
ListedStep ==
    /\ started' = started + 1
    /\ pc' = pc
    /\ last'.resp.endpoint = "list-employees"

\* C11: however edits of the employee storage interleave with the calls,
\* generate_offer_for and list_employees read the storage anew and answer
\* from what it holds at that moment, never from what an earlier call read.
C11_ReadsStorageAfresh ==
    [][ /\ (ListedStep /\ storage.readable)
            => /\ last'.resp.code = 200
               /\ last'.resp.body.count = Len(storage.rows)
               /\ \A i \in 1..Len(storage.rows) :
                     /\ last'.resp.body.employees[i].band = storage.rows[i].band
                     /\ last'.resp.body.employees[i].department = storage.rows[i].department
                     /\ last'.resp.body.employees[i].salary = storage.rows[i].total_ctc
        /\ (ListedStep /\ ~storage.readable) => last'.resp.code = 500
        /\ \A t \in Threads :
             (pc[t] = "idle" /\ pc'[t] = "vs" /\ loc'[t].op = "generate")
                => /\ storage.readable /\ storage.has_name_col
                   /\ \E i \in 1..Len(storage.rows) :
                         /\ emp'[t] = storage.rows[i]
                         /\ SameLetters(storage.rows[i].employee_name, req'[t])
        /\ \A t \in Threads :
             (pc[t] = "have" /\ loc[t].op = "generate" /\ pc'[t] = "idle"
                  /\ last'.resp.code = 200)
                => /\ last'.resp.body.employee_details.band = emp[t].band
                   /\ last'.resp.body.employee_details.department = emp[t].department
                   /\ last'.resp.body.employee_details.salary = emp[t].total_ctc ]_vars

\* the storage was edited between two lookups of the same name: the earlier
\* call holds the row that was first then, the later one the row that is
\* first now
C11_Witness ==
    /\ storage = Table(<< RowaB, RowB, RowAb >>)
    /\ pc["t1"] = "vs" /\ req["t1"] = <<"a", "b">> /\ emp["t1"] = RowAb
    /\ pc["t2"] = "vs" /\ req["t2"] = <<"a", "b">> /\ emp["t2"] = RowaB

(***************************************************************************)
(* Claims about the context of a letter (SpecAgent).                       *)
(***************************************************************************)
\* C12: in the chain path and in the template path an exception from the
\* retriever is never propagated: the context is the default sentence (the
\* default bullet in the template), and generation goes on as it would
\* have with a retrieval that answered.
C12_RetrievalFailureGivesDefault ==
    (Invoked /\ ~aout.retr.ok) =>
        /\ TemplateLetter(aout.result)
              => aout.result.value.policies = << [bullet |-> TRUE, line |-> DefaultSentence] >>
        /\ (Returned(aout.result) /\ aout.result.value.form = "llm")
              => aout.result.value.prompt.context = [default |-> TRUE, parts |-> <<>>]
        /\ Raised(aout.result)
              => /\ aout.result.cause = "not_callable"
                 /\ agent.agent = "chain"
                 /\ (aout.gen = "raise" \/ ~agent.llm_agent)

C12_Witness ==
    /\ Invoked
    /\ ~aout.retr.ok
    /\ agent.vectorstore
    /\ TemplateLetter(aout.result)
    /\ aout.result.value.policies = DefaultBullets

\* a line of a retrieved chunk that belongs in the terms section
Qualifies(l) ==
    /\ l.len > 20
    /\ \E i \in 1..Len(l.words) : LowerWord(l.words[i]) \in Keywords

\* the qualifying lines of the first three retrieved chunks, in order
QualifyingLines ==
    IF agent.vectorstore /\ aout.retr.ok
    THEN SelectSeq(AllLines(SubSeq(aout.retr.docs, 1, Min(3, Len(aout.retr.docs)))), Qualifies)
    ELSE <<>>

\* C13: the terms section of the template holds exactly the lines of the
\* retrieved chunks, in retrieval order, that contain a keyword and are
\* longer than 20 characters, each with a bullet, at most the first 8; with
\* no such line, or no index, it is the one default bullet.
C13_TermsAreFirstEightQualifyingLines ==
    TemplateLetter(aout.result) =>
        LET terms == aout.result.value.policies
        IN IF QualifyingLines = <<>>
           THEN terms = << [bullet |-> TRUE, line |-> DefaultSentence] >>
           ELSE /\ Len(terms) = Min(8, Len(QualifyingLines))
                /\ \A i \in 1..Len(terms) :
                      terms[i] = [bullet |-> TRUE, line |-> QualifyingLines[i].id]

C13_Witness ==
    /\ TemplateLetter(aout.result)
    /\ Len(QualifyingLines) > 8
    /\ Len(aout.result.value.policies) = 8
    /\ aout.result.value.policies[3].line = "d4"
    /\ aout.result.value.policies[6].line = "a1"

(***************************************************************************)
(* Claims about the generation timestamp and the compensation section.     *)
(***************************************************************************)
\* C14: the timestamp generate_offer_for puts into the request has the
\* date-only form, invoke leaves the request as it was, and so the result
\* reports that same date-only value as generated_on.
C14_GeneratedOnIsDateOnly ==
    (last.resp.endpoint = "generate-offer" /\ last.resp.code = 200) =>
        /\ last.resp.body.generated_on.fmt = "%B %d, %Y"
        /\ last.resp.body.generated_on.minute = -1

\* C15: the template has the computed total line exactly when every value
\* of the salary breakdown is numeric; a non-numeric value is rendered as
\* it is, the numeric ones as currency lines.
C15_TotalLineIffAllNumeric ==
    TemplateLetter(aout.result) =>
        LET items == aout.given.salary_breakup
            lines == aout.result.value.salary
        IN /\ \A i \in 1..Len(items) :
                 IF items[i].v.isnum
                 THEN lines[i].currency /\ GroupsValue(lines[i].groups) = items[i].v.n
                 ELSE ~lines[i].currency /\ lines[i].text = items[i].v.s
           /\ (\E i \in 1..Len(lines) : lines[i].label = TotalLabel)
                 <=> AllNumeric(items)

(***************************************************************************)
(* Claims about failures of the index build (Spec).                        *)
(***************************************************************************)
\* the step in which cached_vectorstore raises on thread t
BuildFailedStep(t) ==
    /\ pc[t] \in {"vs", "list", "create", "populate", "attach"}
    /\ pc'[t] = "idle"

\* C16: a failed build of the index is not kept: the caller gets the
\* failure, the cache stays as it was, the next access with an empty cache
\* runs the build again, and only a build that succeeded fills the cache.
C16_FailedBuildIsNotCached ==
    [][ \A t \in Threads :
          /\ BuildFailedStep(t)
                => /\ cache' = cache
                   /\ IF loc[t].op = "generate"
                      THEN last'.resp.code \in {500, 503}
                      ELSE last'.resp.body.status = "error"
          /\ (pc[t] = "vs" /\ ~cache.filled /\ pc'[t] # "vs")
                => /\ hist'.builds = hist.builds + 1
                   /\ pc'[t] \in {"list", "idle"}
          /\ (pc'[t] # pc[t] /\ ~cache.filled /\ cache'.filled)
                => /\ pc[t] \in {"populate", "attach"}
                   /\ pc'[t] = "have"
                   /\ cache'.handle = vs'[t]
                   /\ vs'[t].index = INDEX_NAME ]_vars

\* a first build failed for a missing policy file, a second one succeeded
C16_Witness ==
    /\ cache.filled
    /\ cache.handle.obj = 2
    /\ hist.builds = 2
    /\ last.resp.code = 500
    /\ last.resp.body.cause = "missing_file"

====
